---- MODULE Spec2Model ----
(***************************************************************************)
(* A model of the SysML Monaco editor's transport bridge.                  *)
(*                                                                         *)
(*  - lsp-ws-proxy (src/unnamed/part_000): the stdout decoder that cuts    *)
(*    the language server's byte stream into LSP messages, and the         *)
(*    encoder that frames a client message for the server's stdin.         *)
(*  - SimpleLSPClient (src/src/main.tsx): request/response correlation,    *)
(*    timeouts, the initialize handshake and disconnect.                   *)
(*                                                                         *)
(* Text is a sequence of one-character strings (UTF-16 code units, as a JS *)
(* string is); a byte stream is a sequence of byte tokens.  An ASCII byte  *)
(* is written as its character; the two bytes of U+00E9 are "0xC3" and     *)
(* "0xA9".  Positions are 0-based where the source's are (indexOf,         *)
(* substring), and sequences are 1-based as TLA+ has them.                 *)
(***************************************************************************)
EXTENDS Integers, Sequences, FiniteSets, TLC

VARIABLES
    \* ---- proxy, one connection (src/unnamed/part_000) ----
    messages,       \* the JSON texts the language server frames and writes
    units,          \* everything the server writes: frames and other output
    sessions,       \* the connections of the proxy, when several are modelled
    stream,         \* the bytes the server writes to stdout, in order
    pos,            \* how many of them have been delivered in data events
    buffer,         \* `let buffer = ""` of the connection
    forwarded,      \* the texts handed to ws.send, in order
    dataEvents,     \* how many data events there were (history)
    wsReadyState,   \* ws.readyState of the proxy's client socket
    \* ---- proxy, the language server process of the connection ----
    ls,             \* the child process: "running", "failing" (spawn failed,
                    \* its error event not yet emitted), "failed", "exited",
                    \* or "none" (spawn threw)
    lsKilled,       \* ls.killed
    sigterms,       \* how many SIGTERM the proxy sent to the process (history)
    received,       \* the client messages of the message events, in order
    stdinWrites,    \* the arguments of ls.stdin.write, in order
    closeCalls,     \* ws.readyState at each ws.close() of the proxy (history)
    \* ---- client (src/src/main.tsx) ----
    ws,             \* this.ws: "null" or "socket", the WebSocket of connect()
    socket,         \* readyState of the WebSocket connect() created
    messageId,      \* this.messageId
    pendingRequests,\* this.pendingRequests: id -> the call its entry settles
    isInitialized,  \* this.isInitialized
    calls,          \* the sendRequest calls so far: promise and timer of each
    wire,           \* what the client passed to ws.send, in order
    connectionStatus, \* the editor's connectionStatus state
    lastEvent,      \* the branch handleMessage took in the last step (history)
    \* ---- editor (src/src/sysml-editor.tsx) ----
    flow,           \* where connectToLSP stands
    diagnosticsHandler, \* whether client.setDiagnosticsHandler was called
    models,         \* the Monaco model of each file: versionId, value, ...
    openFiles,      \* the uris of the openFiles state
    currentErrors,  \* the currentErrors state: the aggregate problems list
    markers,        \* the "lsp" markers of each model
    published,      \* per uri, the diagnostics of its last publish (history)
    publishCount,   \* how many publishDiagnostics arrived (history)
    hover           \* the hover the user asked for, and what it showed

proxyVars == <<sessions, messages, units, stream, pos, buffer, forwarded, dataEvents, wsReadyState>>
processVars == <<ls, lsKilled, sigterms, received, stdinWrites, closeCalls>>
clientVars == <<ws, socket, messageId, pendingRequests, isInitialized, calls,
                wire, connectionStatus, lastEvent>>
clientVarsButEvent == <<ws, socket, messageId, pendingRequests, isInitialized,
                        calls, wire, connectionStatus>>
editorVars == <<flow, diagnosticsHandler, models, openFiles, currentErrors,
                markers, published, publishCount, hover>>
vars == <<sessions, messages, units, stream, pos, buffer, forwarded, dataEvents, wsReadyState,
          ls, lsKilled, sigterms, received, stdinWrites, closeCalls,
          ws, socket, messageId, pendingRequests, isInitialized, calls,
          wire, connectionStatus, lastEvent,
          flow, diagnosticsHandler, models, openFiles, currentErrors,
          markers, published, publishCount, hover>>

----------------------------------------------------------------------------
(* Bounds of the model. *)

\* Frames the language server writes in one run.
MaxFrames == 2
\* Data events the stream is delivered in (so up to MaxDataEvents - 1 cuts).
MaxDataEvents == 3
\* sendRequest calls made on one client.
MaxCalls == 3
\* Messages the browser sends on one connection.
MaxClientMessages == 3

----------------------------------------------------------------------------
(* Characters and bytes. *)

CR == "\r"
LF == "\n"
QUOTE == "\""
\* U+00E9, a character whose UTF-8 encoding has two bytes.
EAcute == "U+00E9"
\* U+FFFD, what decoding puts in place of an incomplete or invalid sequence.
Replacement == "U+FFFD"
LeadByte == "0xC3"
ContByte == "0xA9"

Digits == <<"0", "1", "2", "3", "4", "5", "6", "7", "8", "9">>
DigitSet == {Digits[i] : i \in 1..10}
DigitValue(c) == (CHOOSE i \in 1..10 : Digits[i] = c) - 1

Min(a, b) == IF a < b THEN a ELSE b

\* The UTF-8 bytes of one character of the model's texts (ASCII or U+00E9).
Utf8Bytes(c) ==
    IF c = EAcute THEN <<LeadByte, ContByte>>
    ELSE <<c>>

\* Writing a string to a stream: the UTF-8 bytes of its characters, in
\* order (the recursion halves the string to stay shallow).
RECURSIVE Utf8Encode(_)
Utf8Encode(s) ==
    IF s = <<>> THEN <<>>
    ELSE IF Len(s) = 1 THEN Utf8Bytes(s[1])
    ELSE LET mid == Len(s) \div 2
         IN  Utf8Encode(SubSeq(s, 1, mid)) \o Utf8Encode(SubSeq(s, mid + 1, Len(s)))

\* Buffer.byteLength(str, "utf8")
ByteLength(s) == Len(Utf8Encode(s))

\* What the byte at index i of a chunk decodes to: a lead byte followed by
\* its continuation byte is the character (and the continuation byte then
\* adds nothing); a lead byte the chunk ends after, or one followed by
\* another byte, and a continuation byte with no lead byte before it in the
\* chunk, each decode to U+FFFD.
DecodeAt(data, i) ==
    IF data[i] = LeadByte
    THEN IF i < Len(data) /\ data[i + 1] = ContByte
         THEN <<EAcute>> ELSE <<Replacement>>
    ELSE IF data[i] = ContByte
    THEN IF i > 1 /\ data[i - 1] = LeadByte THEN <<>> ELSE <<Replacement>>
    ELSE <<data[i]>>

RECURSIVE DecodeRange(_, _, _)
DecodeRange(data, lo, hi) ==
    IF lo > hi THEN <<>>
    ELSE IF lo = hi THEN DecodeAt(data, lo)
    ELSE LET mid == (lo + hi) \div 2
         IN  DecodeRange(data, lo, mid) \o DecodeRange(data, mid + 1, hi)

\* data.toString(): UTF-8 decoding of ONE chunk, with no state kept from the
\* chunk before.
BufferToString(data) == DecodeRange(data, 1, Len(data))

\* Number.prototype.toString(): the decimal digits of n.
RECURSIVE ToDigits(_)
ToDigits(n) ==
    IF n < 10 THEN <<Digits[n + 1]>>
    ELSE ToDigits(n \div 10) \o <<Digits[(n % 10) + 1]>>

\* parseInt of a string of decimal digits.
RECURSIVE ParseInt(_)
ParseInt(d) ==
    IF d = <<>> THEN 0
    ELSE 10 * ParseInt(SubSeq(d, 1, Len(d) - 1)) + DigitValue(d[Len(d)])

----------------------------------------------------------------------------
(* JS string operations the decoder uses. *)

\* str.substring(from, to), 0-based, `to` exclusive and clamped to the length.
Substring(s, from, to) == SubSeq(s, from + 1, Min(to, Len(s)))

\* str.substring(from)
SubstringFrom(s, from) == SubSeq(s, from + 1, Len(s))

StartsWithAt(s, pat, i) ==
    /\ i + Len(pat) <= Len(s)
    /\ SubSeq(s, i + 1, i + Len(pat)) = pat

\* str.indexOf(pat): the least 0-based offset pat occurs at, or -1.
IndexOf(s, pat) ==
    LET hits == {i \in 0..Len(s) : StartsWithAt(s, pat, i)}
    IN  IF hits = {} THEN -1 ELSE CHOOSE i \in hits : \A j \in hits : i <= j

HeaderTerminator == <<CR, LF, CR, LF>>
ContentLengthField ==
    <<"C", "o", "n", "t", "e", "n", "t", "-", "L", "e", "n", "g", "t", "h", ":", " ">>

\* The longest run of digits of s that starts at 0-based offset i.
RECURSIVE DigitRun(_, _)
DigitRun(s, i) ==
    IF i < Len(s) /\ s[i + 1] \in DigitSet
    THEN <<s[i + 1]>> \o DigitRun(s, i + 1)
    ELSE <<>>

\* headers.match(/Content-Length: (\d+)/): group 1 of the leftmost match, or
\* <<>> when there is none (null).
ContentLengthMatch(headers) ==
    LET hits == {i \in 0..Len(headers) :
                    /\ StartsWithAt(headers, ContentLengthField, i)
                    /\ DigitRun(headers, i + Len(ContentLengthField)) # <<>>}
    IN  IF hits = {} THEN <<>>
        ELSE LET i == CHOOSE h \in hits : \A j \in hits : h <= j
             IN  DigitRun(headers, i + Len(ContentLengthField))

----------------------------------------------------------------------------
(* JSON.parse, as the decoder uses it: does the text parse?  A recursive   *)
(* descent over the JSON grammar (RFC 8259).  Every Parse operator takes   *)
(* the 1-based position a construct starts at and returns the position     *)
(* after it, or Fail.  The model's alphabet has no backslash, so a string  *)
(* has no escapes.                                                         *)

Fail == 0
Whitespace == {" ", "\t", CR, LF}
At(s, i) == IF i >= 1 /\ i <= Len(s) THEN s[i] ELSE "EOF"

RECURSIVE SkipWs(_, _)
SkipWs(s, i) == IF At(s, i) \in Whitespace THEN SkipWs(s, i + 1) ELSE i

RECURSIVE SkipDigits(_, _)
SkipDigits(s, i) == IF At(s, i) \in DigitSet THEN SkipDigits(s, i + 1) ELSE i

\* The characters of a string up to its closing quote; a control character
\* (here CR, LF, TAB) may not occur unescaped.
RECURSIVE ParseStringRest(_, _)
ParseStringRest(s, i) ==
    IF At(s, i) = QUOTE THEN i + 1
    ELSE IF At(s, i) \in {"EOF", CR, LF, "\t", "\\"} THEN Fail
    ELSE ParseStringRest(s, i + 1)

ParseString(s, i) == IF At(s, i) = QUOTE THEN ParseStringRest(s, i + 1) ELSE Fail

\* -? (0 | [1-9][0-9]*) (. [0-9]+)? ([eE] [+-]? [0-9]+)?
ParseNumber(s, i) ==
    LET a == IF At(s, i) = "-" THEN i + 1 ELSE i
        b == IF At(s, a) = "0" THEN a + 1
             ELSE IF At(s, a) \in DigitSet THEN SkipDigits(s, a)
             ELSE Fail
        c == IF b = Fail THEN Fail
             ELSE IF At(s, b) = "."
             THEN IF At(s, b + 1) \in DigitSet THEN SkipDigits(s, b + 1) ELSE Fail
             ELSE b
        d == IF c = Fail THEN Fail
             ELSE IF At(s, c) \in {"e", "E"}
             THEN LET e == IF At(s, c + 1) \in {"+", "-"} THEN c + 2 ELSE c + 1
                  IN  IF At(s, e) \in DigitSet THEN SkipDigits(s, e) ELSE Fail
             ELSE c
    IN  d

ParseLiteral(s, i, lit) ==
    IF StartsWithAt(s, lit, i - 1) THEN i + Len(lit) ELSE Fail

RECURSIVE ParseValue(_, _)
RECURSIVE ParseElements(_, _)
RECURSIVE ParseMembers(_, _)

\* After "[" or ",": value ws ("," ws elements | "]")
ParseElements(s, i) ==
    LET v == ParseValue(s, i)
        w == IF v = Fail THEN Fail ELSE SkipWs(s, v)
    IN  IF w = Fail THEN Fail
        ELSE IF At(s, w) = "]" THEN w + 1
        ELSE IF At(s, w) = "," THEN ParseElements(s, SkipWs(s, w + 1))
        ELSE Fail

\* After "{" or ",": string ws ":" ws value ws ("," ws members | "}")
ParseMembers(s, i) ==
    LET k == ParseString(s, i)
        c == IF k = Fail THEN Fail ELSE SkipWs(s, k)
        v == IF c = Fail \/ At(s, c) # ":" THEN Fail
             ELSE ParseValue(s, SkipWs(s, c + 1))
        w == IF v = Fail THEN Fail ELSE SkipWs(s, v)
    IN  IF w = Fail THEN Fail
        ELSE IF At(s, w) = "}" THEN w + 1
        ELSE IF At(s, w) = "," THEN ParseMembers(s, SkipWs(s, w + 1))
        ELSE Fail

ParseValue(s, i) ==
    LET c == At(s, i)
    IN  IF c = QUOTE THEN ParseString(s, i)
        ELSE IF c = "-" \/ c \in DigitSet THEN ParseNumber(s, i)
        ELSE IF c = "[" THEN
            LET j == SkipWs(s, i + 1)
            IN  IF At(s, j) = "]" THEN j + 1 ELSE ParseElements(s, j)
        ELSE IF c = "{" THEN
            LET j == SkipWs(s, i + 1)
            IN  IF At(s, j) = "}" THEN j + 1 ELSE ParseMembers(s, j)
        ELSE IF c = "t" THEN ParseLiteral(s, i, <<"t", "r", "u", "e">>)
        ELSE IF c = "f" THEN ParseLiteral(s, i, <<"f", "a", "l", "s", "e">>)
        ELSE IF c = "n" THEN ParseLiteral(s, i, <<"n", "u", "l", "l">>)
        ELSE Fail

\* JSON.parse(text) does not throw.
JsonParses(text) ==
    LET v == ParseValue(text, SkipWs(text, 1))
    IN  v # Fail /\ SkipWs(text, v) = Len(text) + 1

----------------------------------------------------------------------------
(* The proxy's encoder and decoder. *)

\* WebSocket.readyState: CONNECTING = 0, OPEN = 1, CLOSING = 2, CLOSED = 3,
\* written by name.
CONNECTING == "CONNECTING"
OPEN == "OPEN"
CLOSING == "CLOSING"
CLOSED == "CLOSED"

\* ws.on("message"): the frame written to the server's stdin for one client
\* message, as the bytes ls.stdin.write puts on the pipe.
Encode(messageStr) ==
    LET contentLength == ByteLength(messageStr)
        lspMessage == ContentLengthField \o ToDigits(contentLength)
                        \o HeaderTerminator \o messageStr
    IN  Utf8Encode(lspMessage)

\* The `while (true)` loop of ls.stdout.on("data"): from the buffer and the
\* texts sent so far to the buffer and the texts sent when the loop breaks.
RECURSIVE DecodeLoop(_, _, _)
DecodeLoop(buf, sent, readyState) ==
    LET headerEnd == IndexOf(buf, HeaderTerminator)
        headers == Substring(buf, 0, headerEnd)
        contentLengthMatch == ContentLengthMatch(headers)
        contentLength == ParseInt(contentLengthMatch)
        messageStart == headerEnd + 4
        messageEnd == messageStart + contentLength
        messageContent == Substring(buf, messageStart, messageEnd)
    IN  IF headerEnd = -1 THEN [buffer |-> buf, sent |-> sent]
        ELSE IF contentLengthMatch = <<>>
        THEN DecodeLoop(SubstringFrom(buf, headerEnd + 4), sent, readyState)
        ELSE IF Len(buf) < messageEnd THEN [buffer |-> buf, sent |-> sent]
        ELSE IF JsonParses(messageContent) /\ readyState = OPEN
        THEN DecodeLoop(SubstringFrom(buf, messageEnd),
                        Append(sent, messageContent), readyState)
        ELSE DecodeLoop(SubstringFrom(buf, messageEnd), sent, readyState)

----------------------------------------------------------------------------
(* SimpleLSPClient (src/src/main.tsx). *)

\* What a promise was settled with.  An Error carries its message; the
\* timeout's message names the method and the id.
NoOutcome == [kind |-> "none", message |-> "none", method |-> "none", id |-> 0]
Result(r) == [kind |-> "result", message |-> r, method |-> "none", id |-> 0]
Error(text) == [kind |-> "Error", message |-> text, method |-> "none", id |-> 0]
TimeoutError(method, id) ==
    [kind |-> "Error", message |-> "timed out after 30 seconds",
     method |-> method, id |-> id]
NotConnectedError == Error("WebSocket not connected")

\* lastEvent after a step that handled no inbound message.
NoMessageEvent == [branch |-> "none", response |-> FALSE]

\* The client as constructed (field initialisers of SimpleLSPClient), in an
\* editor whose connectionStatus is still "disconnected".
ClientInit ==
    /\ ws = "null"
    /\ socket = "none"
    /\ messageId = 0
    /\ pendingRequests = <<>>
    /\ isInitialized = FALSE
    /\ calls = <<>>
    /\ wire = <<>>
    /\ connectionStatus = "disconnected"
    /\ lastEvent = NoMessageEvent

\* Only the absence of the socket is tested, not its readyState.
NoSocket == ws = "null"

\* !this.ws || this.ws.readyState !== WebSocket.OPEN
NotConnected == ws = "null" \/ socket # OPEN

\* The promise's resolve or reject function is called: the first call
\* settles the promise, a later one changes nothing.
Settle(c, state, outcome) ==
    [c EXCEPT !.state = IF c.state = "pending" THEN state ELSE @,
              !.outcome = IF c.state = "pending" THEN outcome ELSE @,
              !.invoked = @ + 1]

\* The resolve / reject of a pendingRequests entry: clearTimeout, then settle.
EntrySettle(c, state, outcome) ==
    Settle([c EXCEPT !.timer = IF @ = "armed" THEN "cleared" ELSE @],
           state, outcome)

\* pendingRequests.delete(id)
MapDelete(map, id) == [k \in DOMAIN map \ {id} |-> map[k]]

\* pendingRequests.set(id, entry)
MapSet(map, id, entry) ==
    [k \in DOMAIN map \cup {id} |-> IF k = id THEN entry ELSE map[k]]

\* this.ws.send(JSON.stringify(message)) of sendNotification, when connected.
SendNotification(out, method) ==
    IF NotConnected THEN out
    ELSE Append(out, [kind |-> "notification", method |-> method, id |-> 0])

\* An id taken from the size of the pending map instead of the counter.
NextIdFromMapSize == Cardinality(DOMAIN pendingRequests) + 1

\* ++this.messageId
NextId == messageId + 1

\* sendRequest(method); `awaited` says that an initialize() call awaits it.
SendRequest(method, awaited) ==
    /\ Len(calls) < MaxCalls
    /\ IF NotConnected
       THEN /\ calls' = Append(calls,
                    [method |-> method, id |-> 0, state |-> "rejected",
                     outcome |-> NotConnectedError, timer |-> "none",
                     invoked |-> 1, awaited |-> awaited])
            /\ UNCHANGED <<messageId, pendingRequests, wire>>
       ELSE LET id == NextId
            IN  /\ messageId' = id
                /\ calls' = Append(calls,
                        [method |-> method, id |-> id, state |-> "pending",
                         outcome |-> NoOutcome, timer |-> "armed",
                         invoked |-> 0, awaited |-> awaited])
                /\ pendingRequests' = MapSet(pendingRequests, id, Len(calls) + 1)
                /\ wire' = Append(wire,
                        [kind |-> "request", method |-> method, id |-> id])
    /\ lastEvent' = NoMessageEvent
    /\ UNCHANGED <<ws, socket, isInitialized, connectionStatus>>
    /\ UNCHANGED <<proxyVars, processVars, editorVars>>

\* getHover(uri, line, character)
GetHover == SendRequest("textDocument/hover", FALSE)

\* lastEvent after an initialize() call that returned at once (line 144).
InitializeReturned == [branch |-> "initialize returned", response |-> FALSE]

\* initialize() without the test of this.isInitialized.
InitializeAlways == SendRequest("initialize", TRUE)

\* initialize(), up to its await: nothing when already initialized.
Initialize ==
    IF isInitialized
    THEN /\ lastEvent' = InitializeReturned
         /\ UNCHANGED <<ws, socket, messageId, pendingRequests, isInitialized,
                        calls, wire, connectionStatus>>
         /\ UNCHANGED <<proxyVars, processVars, editorVars>>
    ELSE SendRequest("initialize", TRUE)

\* The 30-second timer of call k fires.
TimerFires(k) ==
    /\ k \in 1..Len(calls)
    /\ calls[k].timer = "armed"
    /\ LET c == [calls[k] EXCEPT !.timer = "fired"]
       IN  IF c.id \in DOMAIN pendingRequests
           THEN /\ pendingRequests' = MapDelete(pendingRequests, c.id)
                /\ calls' = [calls EXCEPT ![k] =
                        Settle(c, "rejected", TimeoutError(c.method, c.id))]
           ELSE /\ calls' = [calls EXCEPT ![k] = c]
                /\ UNCHANGED pendingRequests
    /\ lastEvent' = NoMessageEvent
    /\ UNCHANGED <<ws, socket, messageId, isInitialized, wire, connectionStatus>>
    /\ UNCHANGED <<proxyVars, processVars, editorVars>>

\* ---- what arrives on the socket ----

\* Values a response's `result` may have, and messages of its `error`.
Results == {"r1", "r2"}
ErrorMessages == {"e1"}

ResultResponse(id, r) ==
    [parses |-> TRUE, hasId |-> TRUE, id |-> id, method |-> "none",
     error |-> "none", result |-> r]
ErrorResponse(id, e) ==
    [parses |-> TRUE, hasId |-> TRUE, id |-> id, method |-> "none",
     error |-> e, result |-> "undefined"]
Notification(method) ==
    [parses |-> TRUE, hasId |-> FALSE, id |-> 0, method |-> method,
     error |-> "none", result |-> "undefined"]
ServerRequest(id, method) ==
    [parses |-> TRUE, hasId |-> TRUE, id |-> id, method |-> method,
     error |-> "none", result |-> "undefined"]
\* Data that JSON.parse rejects, or that parses to null.
Unparsable ==
    [parses |-> FALSE, hasId |-> FALSE, id |-> 0, method |-> "none",
     error |-> "none", result |-> "undefined"]

\* A Response: an id and no method.
IsResponse(m) == m.parses /\ m.hasId /\ m.method = "none"

\* Ids the server may put in a message: those the client can have issued and
\* one it never issues.
ServerIds == 1..(MaxCalls + 1)

Inbound ==
    {ResultResponse(i, r) : i \in ServerIds, r \in Results}
        \cup {ErrorResponse(i, e) : i \in ServerIds, e \in ErrorMessages}
        \cup {ServerRequest(i, "workspace/configuration") : i \in ServerIds}
        \cup {Notification("textDocument/publishDiagnostics"),
              Notification("window/logMessage"), Unparsable}

\* The entry of the oldest outstanding request, whatever id the message has.
PendingEntryOldest(m) ==
    pendingRequests[CHOOSE i \in DOMAIN pendingRequests :
                        \A j \in DOMAIN pendingRequests : i <= j]

\* this.pendingRequests.get(message.id): the call whose entry is under the id.
PendingEntry(m) == pendingRequests[m.id]

\* Every message with an entry resolves it with message.result.
SettledWithResultAlways(m) ==
    [state |-> "resolved", outcome |-> Result(m.result)]

\* if (message.error) reject(new Error(message.error.message));
\* else resolve(message.result);
SettledWith(m) ==
    IF m.error # "none"
    THEN [state |-> "rejected", outcome |-> Error(m.error)]
    ELSE [state |-> "resolved", outcome |-> Result(m.result)]

\* handleMessage(message), first branch: the id has an entry.  The entry is
\* deleted and its reject or resolve is called; an initialize() that awaits
\* the call goes on when it is resolved: the `initialized` notification is
\* sent and isInitialized is set.
HandleResponse(m) ==
    LET k == PendingEntry(m)
        with == SettledWith(m)
        c == EntrySettle(calls[k], with.state, with.outcome)
        resumes == calls[k].awaited /\ calls[k].state = "pending"
                        /\ c.state = "resolved"
    IN  /\ pendingRequests' = MapDelete(pendingRequests, m.id)
        /\ calls' = [calls EXCEPT ![k] = c]
        /\ wire' = IF resumes THEN SendNotification(wire, "initialized") ELSE wire
        /\ isInitialized' = IF resumes THEN TRUE ELSE isInitialized
        /\ lastEvent' = [branch |-> "settled", response |-> IsResponse(m)]

\* A message that is logged clears the pending map.
LogMessageDropsPending(m) ==
    /\ lastEvent' = [branch |-> "logged", response |-> IsResponse(m)]
    /\ pendingRequests' = <<>>
    /\ UNCHANGED <<calls, wire, isInitialized>>

\* handleMessage(message), last branch: console.log("LSP notification:", ...)
LogMessage(m) ==
    /\ lastEvent' = [branch |-> "logged", response |-> IsResponse(m)]
    /\ UNCHANGED <<pendingRequests, calls, wire, isInitialized>>

\* ws.onmessage: JSON.parse, then handleMessage; whatever is thrown is caught
\* and logged.
OnMessage(m) ==
    /\ socket = OPEN
    /\ IF ~m.parses
       THEN /\ lastEvent' = [branch |-> "unparsable", response |-> FALSE]
            /\ UNCHANGED <<pendingRequests, calls, wire, isInitialized>>
       ELSE IF m.hasId /\ m.id \in DOMAIN pendingRequests
       THEN HandleResponse(m)
       ELSE IF m.method = "textDocument/publishDiagnostics"
       THEN /\ lastEvent' = [branch |-> "diagnostics", response |-> FALSE]
            /\ UNCHANGED <<pendingRequests, calls, wire, isInitialized>>
       ELSE LogMessage(m)
    /\ UNCHANGED <<ws, socket, messageId, connectionStatus>>
    /\ UNCHANGED <<proxyVars, processVars, editorVars>>

\* ---- the socket and the session ----

\* connectToLSP up to `await client.connect(url)`: the status handler is set
\* and connect() creates the WebSocket.
Connect ==
    /\ socket = "none"
    /\ socket' = CONNECTING
    /\ ws' = "socket"
    /\ connectionStatus' = "connecting"
    /\ lastEvent' = NoMessageEvent
    /\ UNCHANGED <<messageId, pendingRequests, isInitialized, calls, wire>>
    /\ UNCHANGED <<proxyVars, processVars, editorVars>>

\* ws.onopen
OnOpen ==
    /\ socket = CONNECTING
    /\ socket' = OPEN
    /\ connectionStatus' = "connected"
    /\ lastEvent' = NoMessageEvent
    /\ UNCHANGED <<ws, messageId, pendingRequests, isInitialized, calls, wire>>
    /\ UNCHANGED <<proxyVars, processVars, editorVars>>

\* ws.onclose: what the handler does when the socket closes.
CloseHandler ==
    /\ isInitialized' = FALSE
    /\ connectionStatus' = "disconnected"

\* The socket closes cleanly: the close event.
OnClose ==
    /\ socket \in {OPEN, CLOSING}
    /\ socket' = CLOSED
    /\ CloseHandler
    /\ lastEvent' = NoMessageEvent
    /\ UNCHANGED <<ws, messageId, pendingRequests, calls, wire>>
    /\ UNCHANGED <<proxyVars, processVars, editorVars>>

\* The connection fails: the error event (ws.onerror sets the status to
\* 'error'), then, in the same task, the close event.
OnError ==
    /\ socket \in {CONNECTING, OPEN, CLOSING}
    /\ socket' = CLOSED
    /\ CloseHandler
    /\ lastEvent' = NoMessageEvent
    /\ UNCHANGED <<ws, messageId, pendingRequests, calls, wire>>
    /\ UNCHANGED <<proxyVars, processVars, editorVars>>

\* disconnect()
Disconnect ==
    /\ IF ws # "null"
       THEN /\ socket' = IF socket \in {CONNECTING, OPEN} THEN CLOSING ELSE socket
            /\ ws' = "null"
       ELSE UNCHANGED <<ws, socket>>
    /\ pendingRequests' = <<>>
    /\ isInitialized' = FALSE
    /\ lastEvent' = NoMessageEvent
    /\ UNCHANGED <<messageId, calls, wire, connectionStatus>>
    /\ UNCHANGED <<proxyVars, processVars, editorVars>>

----------------------------------------------------------------------------
(* The editor component (src/src/sysml-editor.tsx): connectToLSP, the       *)
(* documents, and the diagnostics handler.                                 *)

\* The files of the initial openFiles state, in their order.
MainUri == "file:///main.sysml"
LibraryUri == "file:///library.sysml"
Uris == {MainUri, LibraryUri}
ModelOrder == <<MainUri, LibraryUri>>

\* Contents a model may have.
Texts == {"A", "B"}

\* monaco.editor.createModel(file.content, ...): a model starts at version
\* id 1; `listening` says that connectToLSP gave it a change listener.
InitialModels ==
    [u \in Uris |-> [versionId |-> 1, value |-> "A", disposed |-> FALSE,
                     listening |-> FALSE]]

\* Diagnostics the server may publish: 0-based ranges, LSP severities.
DiagnosticOne ==
    [line |-> 0, character |-> 0, endLine |-> 0, endCharacter |-> 3,
     severity |-> 1, message |-> "m1"]
DiagnosticTwo ==
    [line |-> 1, character |-> 2, endLine |-> 2, endCharacter |-> 0,
     severity |-> 4, message |-> "m2"]
DiagnosticLists == {<<>>, <<DiagnosticOne>>, <<DiagnosticTwo, DiagnosticOne>>}

\* The marker made of a diagnostic (lines 232-254).
ToMarker(d) ==
    [startLineNumber |-> d.line + 1, startColumn |-> d.character + 1,
     endLineNumber |-> d.endLine + 1, endColumn |-> d.endCharacter + 1,
     message |-> d.message,
     severity |-> IF d.severity = 1 THEN "MarkerSeverity.Error"
                  ELSE IF d.severity = 2 THEN "MarkerSeverity.Warning"
                  ELSE IF d.severity = 3 THEN "MarkerSeverity.Info"
                  ELSE "MarkerSeverity.Hint"]

\* The ErrorItem made of a diagnostic (lines 266-275).
ToErrorItem(d, uri) ==
    [line |-> d.line + 1, column |-> d.character + 1, message |-> d.message,
     severity |-> IF d.severity = 1 THEN "error"
                  ELSE IF d.severity = 2 THEN "warning"
                  ELSE IF d.severity = 3 THEN "info"
                  ELSE "hint",
     uri |-> uri]

NewErrors(diagnostics, uri) ==
    [i \in 1..Len(diagnostics) |-> ToErrorItem(diagnostics[i], uri)]

\* The errors of every uri are kept.
KeepAllErrors(prevErrors, uri) == prevErrors

\* prevErrors.filter(error => error.uri !== uri)
FilteredErrors(prevErrors, uri) ==
    SelectSeq(prevErrors, LAMBDA error : error.uri # uri)

\* The callback given to client.setDiagnosticsHandler: markers on the model
\* of the uri when there is one, and the uri's part of currentErrors
\* replaced.
DiagnosticsHandler(uri, diagnostics) ==
    /\ markers' = IF uri \in Uris /\ ~models[uri].disposed
                  THEN [markers EXCEPT ![uri] =
                            [i \in 1..Len(diagnostics) |-> ToMarker(diagnostics[i])]]
                  ELSE markers
    /\ currentErrors' = FilteredErrors(currentErrors, uri)
                            \o NewErrors(diagnostics, uri)

\* No hover was asked for.
NoHover ==
    [phase |-> "none", uri |-> "none", lineNumber |-> 0, column |-> 0,
     call |-> 0, shown |-> [kind |-> "none", range |-> <<>>, message |-> "none"]]

\* Where the user may point: in the marker of DiagnosticOne, in the second
\* line of the text that DiagnosticTwo covers, and below both.
HoverPositions ==
    {[lineNumber |-> 1, column |-> 2], [lineNumber |-> 2, column |-> 5],
     [lineNumber |-> 4, column |-> 1]}

\* The test of markers.find in provideHover (lines 141-146).
MarkerHit(m, position) ==
    /\ position.lineNumber >= m.startLineNumber
    /\ position.lineNumber <= m.endLineNumber
    /\ position.column >= m.startColumn
    /\ position.column <= m.endColumn

\* markers.find(...): the index of the first marker that passes the test,
\* or 0 when find returns undefined.
Find(ms, position) ==
    LET hits == {i \in 1..Len(ms) : MarkerHit(ms[i], position)}
    IN  IF hits = {} THEN 0 ELSE CHOOSE i \in hits : \A j \in hits : i <= j

\* What provideHover may return: null, the contents the server gave, or a
\* marker with its range.
HoverNull == [kind |-> "null", range |-> <<>>, message |-> "none"]
HoverContents == [kind |-> "contents", range |-> <<>>, message |-> "none"]

\* The fallback of provideHover: null, or the hit with its range.
HoverFallback(ms, position) ==
    LET hit == Find(ms, position)
    IN  IF hit = 0 THEN HoverNull
        ELSE [kind |-> "marker",
              range |-> <<ms[hit].startLineNumber, ms[hit].startColumn,
                          ms[hit].endLineNumber, ms[hit].endColumn>>,
              message |-> ms[hit].message]

\* Of the results a server gives, "r1" stands for one with the fields its
\* reader looks at (capabilities with a semantic tokens legend; hover
\* contents), "r2" for an object without them.
HasContents(r) == r = "r1"
HasLegend(r) == r = "r1"

\* What provideHover returns when getHover has resolved with r.
HoverShown(r, ms, position) ==
    IF HasContents(r) THEN HoverContents ELSE HoverFallback(ms, position)

\* No component is mounted: the editor's state as first rendered, and no
\* connectToLSP.
EditorIdle ==
    /\ flow = "none"
    /\ diagnosticsHandler = FALSE
    /\ models = InitialModels
    /\ openFiles = Uris
    /\ currentErrors = <<>>
    /\ markers = [u \in Uris |-> <<>>]
    /\ published = [u \in Uris |-> <<>>]
    /\ publishCount = 0
    /\ hover = NoHover

\* The component is mounted; connectToLSP runs after the 1 s delay.
EditorMounted ==
    /\ flow = "mounted"
    /\ diagnosticsHandler = FALSE
    /\ models = InitialModels
    /\ openFiles = Uris
    /\ currentErrors = <<>>
    /\ markers = [u \in Uris |-> <<>>]
    /\ published = [u \in Uris |-> <<>>]
    /\ publishCount = 0
    /\ hover = NoHover

\* sendNotification of didOpenTextDocument / didChangeTextDocument.
SendDocumentNotification(out, method, uri, version, text) ==
    IF NotConnected THEN out
    ELSE Append(out, [kind |-> "notification", method |-> method, id |-> 0,
                      uri |-> uri, version |-> version, text |-> text])

\* models.forEach(...), from the i-th model on: didOpen with version 1 and
\* the model's value, then the change listener.  getValue() of a disposed
\* model throws, which ends the loop.
RECURSIVE OpenModels(_, _, _)
OpenModels(i, out, ms) ==
    IF i > Len(ModelOrder) THEN [wire |-> out, models |-> ms, threw |-> FALSE]
    ELSE LET uri == ModelOrder[i]
         IN  IF ms[uri].disposed
             THEN [wire |-> out, models |-> ms, threw |-> TRUE]
             ELSE OpenModels(i + 1,
                      SendDocumentNotification(out, "textDocument/didOpen",
                                               uri, 1, ms[uri].value),
                      [ms EXCEPT ![uri].listening = TRUE])

----------------------------------------------------------------------------
(* The language server's output and the proxy's handlers. *)

\* JSON texts the language server sends: {} , "e-acute" , {"k":[10]}
BodyEmptyObject == <<"{", "}">>
BodyAccented == <<QUOTE, EAcute, QUOTE>>
BodyTenBytes == <<"{", QUOTE, "k", QUOTE, ":", "[", "1", "0", "]", "}">>
Bodies == {BodyEmptyObject, BodyAccented, BodyTenBytes}

RECURSIVE SeqsUpTo(_, _)
SeqsUpTo(S, n) ==
    IF n = 0 THEN {<<>>}
    ELSE LET shorter == SeqsUpTo(S, n - 1)
         IN  shorter \cup {Append(q, x) : q \in shorter, x \in S}

\* What the server writes, piece by piece: a frame with some body, or a
\* header block that has no Content-Length field.
FrameUnit(text) == [kind |-> "frame", text |-> text]
HeaderUnit(text) == [kind |-> "header", text |-> text]

\* The frames of a sequence of texts, one after the other.
RECURSIVE Frames(_)
Frames(msgs) ==
    IF msgs = <<>> THEN <<>> ELSE Encode(Head(msgs)) \o Frames(Tail(msgs))

\* ls.stdout.on("data", data): the next n bytes of the stream arrive.
StdoutData(n) ==
    /\ n >= 1
    /\ pos + n <= Len(stream)
    /\ pos + n = Len(stream) \/ dataEvents + 1 < MaxDataEvents
    /\ LET data == SubSeq(stream, pos + 1, pos + n)
           r == DecodeLoop(buffer \o BufferToString(data), forwarded, wsReadyState)
       IN  /\ buffer' = r.buffer
           /\ forwarded' = r.sent
    /\ pos' = pos + n
    /\ dataEvents' = dataEvents + 1
    /\ UNCHANGED <<sessions, messages, units, stream, wsReadyState>>
    /\ UNCHANGED <<processVars, clientVars, editorVars>>

\* Only one connection is modelled, in the variables of its own.
NoSessions == <<>>

\* ws.close() is called whatever ws.readyState is.
ShouldCloseAlways(readyState) == TRUE

\* if (ws.readyState === 1) of the process's error and exit handlers.
ShouldClose(readyState) == readyState = OPEN

\* ls.kill is never called.
ShouldKillNever(killed) == FALSE

\* if (ls && !ls.killed) of the close handler.
ShouldKill(killed) == ~killed

\* ws.close(): an open socket starts its closing handshake; on a socket
\* that is closing or closed the call does nothing.
WsCloseCall ==
    /\ wsReadyState' = IF wsReadyState = OPEN THEN CLOSING ELSE wsReadyState
    /\ closeCalls' = Append(closeCalls, wsReadyState)

\* The handlers of the connection exist (spawn did not throw), and a failed
\* spawn has emitted its error: that event comes on the next tick, before
\* any event of the socket or of the pipes.
HandlersRun == ls \notin {"none", "failing"}

\* ls.on("exit"): the process has ended, with whatever code or signal.
LsExit ==
    /\ ls = "running"
    /\ ls' = "exited"
    /\ IF ShouldClose(wsReadyState)
       THEN WsCloseCall
       ELSE UNCHANGED <<wsReadyState, closeCalls>>
    /\ UNCHANGED <<sessions, messages, units, stream, pos, buffer, forwarded,
                   dataEvents>>
    /\ UNCHANGED <<lsKilled, sigterms, received, stdinWrites>>
    /\ UNCHANGED <<clientVars, editorVars>>

\* ls.on("error"): the process could not be spawned.
LsError ==
    /\ ls = "failing"
    /\ ls' = "failed"
    /\ IF ShouldClose(wsReadyState)
       THEN WsCloseCall
       ELSE UNCHANGED <<wsReadyState, closeCalls>>
    /\ UNCHANGED <<sessions, messages, units, stream, pos, buffer, forwarded,
                   dataEvents>>
    /\ UNCHANGED <<lsKilled, sigterms, received, stdinWrites>>
    /\ UNCHANGED <<clientVars, editorVars>>

\* The frame is put before what was written earlier.
StdinWriteFirst(written, lspMessage) == <<lspMessage>> \o written

\* ls.stdin.write(lspMessage): the stream keeps what it is given in order.
StdinWrite(written, lspMessage) == Append(written, lspMessage)

\* ws.on("message"): one message of the browser arrives; a socket that the
\* proxy is closing still delivers what the browser sent before it closes.
WsMessage(messageStr) ==
    /\ HandlersRun
    /\ wsReadyState \in {OPEN, CLOSING}
    /\ Len(received) < MaxClientMessages
    /\ received' = Append(received, messageStr)
    /\ stdinWrites' = StdinWrite(stdinWrites, Encode(messageStr))
    /\ UNCHANGED proxyVars
    /\ UNCHANGED <<ls, lsKilled, sigterms, closeCalls>>
    /\ UNCHANGED <<clientVars, editorVars>>

\* ls.kill("SIGTERM"): the signal is sent to a process that runs, and then
\* ls.killed is set; for a process that has ended kill() does nothing.
LsKill ==
    IF ls = "running"
    THEN /\ lsKilled' = TRUE
         /\ sigterms' = sigterms + 1
    ELSE UNCHANGED <<lsKilled, sigterms>>

\* ws.on("close"): the socket has closed, after the browser closed it or the
\* connection broke, or at the end of the handshake ws.close() began.  The
\* handler kills the process unless it has done so.
ProxyWsClosed ==
    /\ ls # "failing"
    /\ wsReadyState \in {OPEN, CLOSING}
    /\ wsReadyState' = CLOSED
    /\ IF HandlersRun /\ ShouldKill(lsKilled)
       THEN LsKill
       ELSE UNCHANGED <<lsKilled, sigterms>>
    /\ UNCHANGED <<sessions, messages, units, stream, pos, buffer, forwarded,
                   dataEvents>>
    /\ UNCHANGED <<ls, received, stdinWrites, closeCalls>>
    /\ UNCHANGED <<clientVars, editorVars>>

\* The process as spawn() returned it, running.
ProcessInit ==
    /\ ls = "running"
    /\ lsKilled = FALSE
    /\ sigterms = 0
    /\ received = <<>>
    /\ stdinWrites = <<>>
    /\ closeCalls = <<>>

\* A connection as wss.on("connection") sets it up: an empty buffer, an open
\* socket, and a server about to write some frames.
ProxyInit ==
    /\ messages \in SeqsUpTo(Bodies, MaxFrames)
    /\ units = [i \in 1..Len(messages) |-> FrameUnit(messages[i])]
    /\ sessions = NoSessions
    /\ stream = Frames(messages)
    /\ pos = 0
    /\ buffer = <<>>
    /\ forwarded = <<>>
    /\ dataEvents = 0
    /\ wsReadyState = OPEN

InitDecoder == ProxyInit /\ ProcessInit /\ ClientInit /\ EditorIdle

NextDecoder ==
    \/ \E n \in 1..Len(stream) : StdoutData(n)
    \/ ProxyWsClosed

SpecDecoder == InitDecoder /\ [][NextDecoder]_vars

\* The stream has been delivered whole and the socket stayed open.
Delivered == pos = Len(stream) /\ wsReadyState = OPEN

\* What the decoder forwards when the whole stream is one data event.
OneChunk(bytes) == DecodeLoop(BufferToString(bytes), <<>>, OPEN).sent

\* The offset in the stream at which frame k ends.
FrameEnd(k) == Len(Frames(SubSeq(messages, 1, k)))

\* C1: however the stream of valid frames is cut into data events, the
\* decoder forwards the same texts in the same order as when the stream
\* arrives as one chunk.
C1_ChunkingIsInvisible == Delivered => forwarded = OneChunk(stream)

\* C2: the frames Encode makes of a sequence of texts decode to exactly those
\* texts, one per frame, also when a text has multi-byte characters.
C2_EncodeDecodeRoundTrip == Delivered => forwarded = messages

\* C3: every text forwarded is the whole body of a frame that has arrived
\* completely: never a part of it, never anything else.
C3_NoPartialFrame ==
    \A k \in 1..Len(forwarded) :
        \E j \in 1..Len(messages) :
            /\ forwarded[k] = messages[j]
            /\ FrameEnd(j) <= pos

----------------------------------------------------------------------------
(* The client, used by any caller, over a socket to a server that may send *)
(* anything.                                                               *)

\* No proxy connection is modelled while the client is.
ProxyIdle ==
    /\ messages = <<>>
    /\ units = <<>>
    /\ sessions = NoSessions
    /\ stream = <<>>
    /\ pos = 0
    /\ buffer = <<>>
    /\ forwarded = <<>>
    /\ dataEvents = 0
    /\ wsReadyState = OPEN

InitClient == ProxyIdle /\ ProcessInit /\ ClientInit /\ EditorIdle

NextClient ==
    \/ Connect
    \/ OnOpen
    \/ OnClose
    \/ OnError
    \/ \E m \in Inbound : OnMessage(m)
    \/ Initialize
    \/ GetHover
    \/ \E k \in 1..MaxCalls : TimerFires(k)
    \/ Disconnect

SpecClient == InitClient /\ [][NextClient]_vars

\* The calls that took an id, and the requests put on the wire, in order.
TookId(c) == c.timer # "none"
IsRequest(w) == w.kind = "request"
Requests == SelectSeq(wire, IsRequest)

\* The responses the server may send under one id.
ResponsesWith(id) ==
    {ResultResponse(id, r) : r \in Results}
        \cup {ErrorResponse(id, e) : e \in ErrorMessages}

\* The session is torn down: the socket has closed or failed, or disconnect()
\* was called.
TornDown == socket \in {CLOSING, CLOSED} \/ (ws = "null" /\ socket # "none")

\* Request k is outstanding: sent, and its promise not yet settled.
Outstanding(k) == TookId(calls[k]) /\ calls[k].state = "pending"

\* C4: a response that carries the id of an outstanding request settles that
\* request, and changes the promise and the timer of no other request,
\* whichever requests are outstanding and in whatever order responses come.
C4_CorrelationById ==
    [][\A j \in 1..Len(calls) :
          Outstanding(j) =>
              \A m \in ResponsesWith(calls[j].id) :
                  OnMessage(m) =>
                      \A k \in 1..Len(calls) :
                          IF k = j
                          THEN calls'[k].state # "pending"
                          ELSE calls'[k] = calls[k]]_vars

\* Three requests were outstanding together and the last was answered first.
C4_Witness ==
    /\ Len(calls) = 3
    /\ calls[1].state = "pending" /\ calls[1].id = 1
    /\ calls[2].state = "pending" /\ calls[2].id = 2
    /\ calls[3].state = "resolved" /\ calls[3].id = 3
    /\ calls[3].outcome = Result("r2")

\* C5: a request whose timer has fired (no response came before its deadline)
\* has been rejected, by one call of its continuation, with the timeout error
\* naming its method and id, and has no entry in the pending map.
C5_TimeoutRejectsOnce ==
    \A k \in 1..Len(calls) :
        calls[k].timer = "fired" =>
            /\ calls[k].state = "rejected"
            /\ calls[k].outcome = TimeoutError(calls[k].method, calls[k].id)
            /\ calls[k].invoked = 1
            /\ calls[k].id \notin DOMAIN pendingRequests

\* C6: once the session is torn down no request is left pending: every
\* request outstanding at that moment has been rejected.
C6_TeardownRejectsAll ==
    TornDown => \A k \in 1..Len(calls) : calls[k].state # "pending"

\* C7: a request that took an id and has no entry in the pending map (any
\* more) had its continuation invoked: it is resolved or rejected.
C7_NoEntryDroppedUnsettled ==
    \A k \in 1..Len(calls) :
        (TookId(calls[k]) /\ calls[k].id \notin DOMAIN pendingRequests) =>
            (calls[k].invoked >= 1 /\ calls[k].state # "pending")

\* C8: the ids of the requests sent are positive, the first is 1, each is
\* greater than the one before, and so no two requests share an id.
C8_IdsIncreaseFromOne ==
    /\ \A i \in 1..Len(Requests) : Requests[i].id >= 1
    /\ Len(Requests) >= 1 => Requests[1].id = 1
    /\ \A i \in 1..Len(Requests) : \A j \in 1..Len(Requests) :
          i < j => Requests[i].id < Requests[j].id

\* Two ids were taken after a failed send, the second after the first
\* request had timed out.
C8_Witness ==
    /\ Len(calls) = 3
    /\ calls[1].outcome = NotConnectedError
    /\ calls[2].timer = "fired"
    /\ Len(Requests) = 2
    /\ calls[3].state = "pending"

\* C9: handling a response whose id has no entry changes nothing of the
\* client: no promise, timer or continuation count, not the pending map, the
\* id counter or the initialized flag, and nothing is sent.
C9_UnknownIdDiscarded ==
    [][(\E i \in ServerIds \ DOMAIN pendingRequests :
            \E m \in ResponsesWith(i) : OnMessage(m)) =>
          UNCHANGED <<calls, pendingRequests, messageId, isInitialized,
                      wire, ws, socket, connectionStatus>>]_vars

\* A response with no entry was just discarded, in an initialized client
\* with a request outstanding and another that had timed out.
C9_Witness ==
    /\ lastEvent = [branch |-> "logged", response |-> TRUE]
    /\ isInitialized
    /\ DOMAIN pendingRequests # {}
    /\ \E k \in 1..Len(calls) : calls[k].timer = "fired"

\* C10: a response for a pending id removes the entry and settles that
\* request: rejected with an Error of the server's message when it carries
\* an error, resolved with its result otherwise; every other request keeps
\* its promise, timer and entry.
C10_ResponseOutcome ==
    [][\A i \in DOMAIN pendingRequests :
          \A m \in ResponsesWith(i) :
            OnMessage(m) =>
              /\ m.id \notin DOMAIN pendingRequests'
              /\ \A k \in 1..Len(calls) :
                    IF calls[k].id = m.id
                    THEN /\ calls'[k].state =
                              IF m.error # "none" THEN "rejected" ELSE "resolved"
                         /\ calls'[k].outcome =
                              IF m.error # "none" THEN Error(m.error)
                              ELSE Result(m.result)
                         /\ calls'[k].invoked = 1
                    ELSE /\ calls'[k] = calls[k]
                         /\ calls[k].id \in DOMAIN pendingRequests
                                => calls[k].id \in DOMAIN pendingRequests'
       ]_vars

\* The first of two outstanding requests was just rejected with the
\* server's error message; the second is still pending with its entry.
C10_Witness ==
    /\ lastEvent = [branch |-> "settled", response |-> TRUE]
    /\ Len(calls) >= 2
    /\ calls[1].state = "rejected" /\ calls[1].outcome = Error("e1")
    /\ calls[2].state = "pending" /\ calls[2].timer = "armed"
    /\ calls[2].id \in DOMAIN pendingRequests

\* An initialize() call of this client has completed: its request was
\* resolved, the `initialized` notification sent and the flag set.
InitializeCompleted ==
    \E k \in 1..Len(calls) : calls[k].awaited /\ calls[k].state = "resolved"

\* C11: once an initialize() call has completed, a later initialize() call
\* sends no `initialize` request and no `initialized` notification and
\* changes nothing of the session: not the id counter, the pending map, the
\* initialized flag, the socket or the status.
C11_InitializeOnce ==
    [][(InitializeCompleted /\ Initialize) =>
          UNCHANGED <<wire, messageId, pendingRequests, isInitialized,
                      ws, socket, connectionStatus>>]_vars

\* initialize() was just called again on an initialized client and returned
\* at once; only the one handshake is on the wire.
C11_Witness ==
    /\ lastEvent = InitializeReturned
    /\ isInitialized
    /\ InitializeCompleted
    /\ Len(wire) = 2
    /\ wire[2].method = "initialized"

----------------------------------------------------------------------------
(* The editor session: the mounted component runs connectToLSP once, the   *)
(* user edits and closes files, and the server answers and publishes.      *)

\* Edits the user makes, and publishDiagnostics the server sends.
MaxEdits == 2
MaxPublishes == 3

\* A publishDiagnostics notification with its params.
PublishDiagnostics(uri, diagnostics) ==
    [parses |-> TRUE, hasId |-> FALSE, id |-> 0,
     method |-> "textDocument/publishDiagnostics",
     error |-> "none", result |-> "undefined",
     uri |-> uri, diagnostics |-> diagnostics]

\* The document notifications sent for a uri, in order.
DocumentNotifications(uri) ==
    SelectSeq(wire, LAMBDA w :
        /\ w.method \in {"textDocument/didOpen", "textDocument/didChange"}
        /\ w.uri = uri)

\* A request of the server, which numbers its requests itself; this one the
\* protocol lets it send while it handles initialize.
ShowMessageRequest(id) == ServerRequest(id, "window/showMessageRequest")

\* What the server sends to this editor: answers to the one request it can
\* get (and to one it cannot), a request of its own, log messages, and
\* diagnostics of documents the client has opened with it.
EditorInbound ==
    ResponsesWith(1) \cup ResponsesWith(2)
        \cup {ResultResponse(2, "null")}
        \cup {ShowMessageRequest(1)}
        \cup {Notification("window/logMessage")}
        \cup {PublishDiagnostics(u, ds) : u \in Uris, ds \in DiagnosticLists}

\* connectToLSP up to `await client.connect(url)`.
ConnectToLSP ==
    /\ flow = "mounted"
    /\ flow' = "connect"
    /\ connectionStatus' = "connecting"
    /\ ws' = "socket"
    /\ socket' = CONNECTING
    /\ lastEvent' = NoMessageEvent
    /\ UNCHANGED <<messageId, pendingRequests, isInitialized, calls, wire>>
    /\ UNCHANGED <<diagnosticsHandler, models, openFiles, currentErrors,
                   markers, published, publishCount, hover>>
    /\ UNCHANGED <<proxyVars, processVars>>

\* ws.onopen, and connectToLSP from the resolved connect() to
\* `await client.initialize()`: the initialize request is sent.
EditorOnOpen ==
    /\ socket = CONNECTING
    /\ flow = "connect"
    /\ socket' = OPEN
    /\ connectionStatus' = "connected"
    /\ flow' = "initialize"
    /\ LET id == NextId
       IN  /\ messageId' = id
           /\ calls' = Append(calls,
                   [method |-> "initialize", id |-> id, state |-> "pending",
                    outcome |-> NoOutcome, timer |-> "armed",
                    invoked |-> 0, awaited |-> TRUE])
           /\ pendingRequests' = MapSet(pendingRequests, id, Len(calls) + 1)
           /\ wire' = Append(wire,
                   [kind |-> "request", method |-> "initialize", id |-> id])
    /\ lastEvent' = NoMessageEvent
    /\ UNCHANGED <<ws, isInitialized>>
    /\ UNCHANGED <<diagnosticsHandler, models, openFiles, currentErrors,
                   markers, published, publishCount, hover>>
    /\ UNCHANGED <<proxyVars, processVars>>

\* handleMessage, first branch, in the editor: the entry is settled.  When
\* the initialize request is resolved, initialize() sends `initialized` and
\* sets the flag, and connectToLSP goes on to its end: the diagnostics
\* handler is set and the models are opened.  When it is rejected, or
\* opening the models throws, the catch of connectToLSP sets the status; so
\* it does when initialize() returned undefined, for then reading
\* serverCapabilities.capabilities throws before any model is opened.
EditorHandleResponse(m) ==
    LET k == PendingEntry(m)
        with == SettledWith(m)
        c == EntrySettle(calls[k], with.state, with.outcome)
        awaiting == flow = "initialize" /\ calls[k].awaited
                        /\ calls[k].state = "pending"
        initialized == SendNotification(wire, "initialized")
        opened == IF with.outcome.message \in {"undefined", "null"}
                  THEN [wire |-> initialized, models |-> models, threw |-> TRUE]
                  ELSE OpenModels(1, initialized, models)
    IN  /\ pendingRequests' = MapDelete(pendingRequests, m.id)
        /\ calls' = [calls EXCEPT ![k] = c]
        /\ lastEvent' = [branch |-> "settled", response |-> IsResponse(m)]
        /\ IF awaiting /\ c.state = "resolved"
           THEN /\ isInitialized' = TRUE
                /\ diagnosticsHandler' = TRUE
                /\ wire' = opened.wire
                /\ models' = opened.models
                /\ flow' = IF opened.threw THEN "failed" ELSE "ready"
                /\ connectionStatus' =
                        IF opened.threw THEN "error" ELSE connectionStatus
           ELSE IF awaiting
           THEN /\ flow' = "failed"
                /\ connectionStatus' = "error"
                /\ UNCHANGED <<isInitialized, diagnosticsHandler, wire, models>>
           ELSE UNCHANGED <<isInitialized, diagnosticsHandler, wire, models,
                            flow, connectionStatus>>
        /\ hover' = IF hover.phase = "requested" /\ hover.call = k
                    THEN [hover EXCEPT
                            !.phase = "done",
                            !.shown = IF c.state = "resolved"
                                      THEN HoverShown(c.outcome.message,
                                                      markers[hover.uri], hover)
                                      ELSE HoverNull]
                    ELSE hover
        /\ UNCHANGED <<openFiles, currentErrors, markers, published,
                       publishCount>>

\* ws.onmessage in the editor.  Diagnostics are published for documents the
\* client has opened.
EditorOnMessage(m) ==
    /\ socket = OPEN
    /\ IF m.hasId /\ m.id \in DOMAIN pendingRequests
       THEN EditorHandleResponse(m)
       ELSE IF m.method = "textDocument/publishDiagnostics"
       THEN /\ publishCount < MaxPublishes
            /\ DocumentNotifications(m.uri) # <<>>
            /\ publishCount' = publishCount + 1
            /\ published' = [published EXCEPT ![m.uri] = m.diagnostics]
            /\ IF diagnosticsHandler
               THEN DiagnosticsHandler(m.uri, m.diagnostics)
               ELSE UNCHANGED <<markers, currentErrors>>
            /\ lastEvent' = [branch |-> "diagnostics", response |-> FALSE]
            /\ UNCHANGED <<pendingRequests, calls, wire, isInitialized,
                           connectionStatus>>
            /\ UNCHANGED <<flow, diagnosticsHandler, models, openFiles, hover>>
       ELSE /\ lastEvent' = [branch |-> "logged", response |-> IsResponse(m)]
            /\ UNCHANGED <<pendingRequests, calls, wire, isInitialized,
                           connectionStatus>>
            /\ UNCHANGED editorVars
    /\ UNCHANGED <<ws, socket, messageId>>
    /\ UNCHANGED <<proxyVars, processVars>>

\* The 30-second timer of the initialize request fires; when the request is
\* rejected, connectToLSP, which awaits it, ends in its catch.
EditorTimerFires ==
    /\ Len(calls) >= 1
    /\ calls[1].timer = "armed"
    /\ LET c == [calls[1] EXCEPT !.timer = "fired"]
       IN  IF c.id \in DOMAIN pendingRequests
           THEN /\ pendingRequests' = MapDelete(pendingRequests, c.id)
                /\ calls' = [calls EXCEPT ![1] =
                        Settle(c, "rejected", TimeoutError(c.method, c.id))]
                /\ flow' = IF flow = "initialize" THEN "failed" ELSE flow
                /\ connectionStatus' =
                        IF flow = "initialize" THEN "error" ELSE connectionStatus
           ELSE /\ calls' = [calls EXCEPT ![1] = c]
                /\ UNCHANGED <<pendingRequests, flow, connectionStatus>>
    /\ lastEvent' = NoMessageEvent
    /\ UNCHANGED <<ws, socket, messageId, isInitialized, wire>>
    /\ UNCHANGED <<diagnosticsHandler, models, openFiles, currentErrors,
                   markers, published, publishCount, hover>>
    /\ UNCHANGED <<proxyVars, processVars>>

\* The socket closes cleanly: ws.onclose.
EditorOnClose ==
    /\ socket = OPEN
    /\ socket' = CLOSED
    /\ CloseHandler
    /\ lastEvent' = NoMessageEvent
    /\ UNCHANGED <<ws, messageId, pendingRequests, calls, wire>>
    /\ UNCHANGED editorVars
    /\ UNCHANGED <<proxyVars, processVars>>

\* The connection fails.  ws.onerror reports 'error' and rejects connect();
\* if connectToLSP still awaits connect() its catch reports "error" too;
\* then, in the same task, ws.onclose reports 'disconnected'.
EditorOnError ==
    /\ socket \in {CONNECTING, OPEN}
    /\ socket' = CLOSED
    /\ flow' = IF flow = "connect" THEN "failed" ELSE flow
    /\ CloseHandler
    /\ lastEvent' = NoMessageEvent
    /\ UNCHANGED <<ws, messageId, pendingRequests, calls, wire>>
    /\ UNCHANGED <<diagnosticsHandler, models, openFiles, currentErrors,
                   markers, published, publishCount, hover>>
    /\ UNCHANGED <<proxyVars, processVars>>

\* sendRequest(method) of a connected client, called by a provider.
ProviderRequest(method) ==
    LET id == NextId
    IN  /\ messageId' = id
        /\ calls' = Append(calls,
                [method |-> method, id |-> id, state |-> "pending",
                 outcome |-> NoOutcome, timer |-> "armed",
                 invoked |-> 0, awaited |-> FALSE])
        /\ pendingRequests' = MapSet(pendingRequests, id, Len(calls) + 1)
        /\ wire' = Append(wire, [kind |-> "request", method |-> method, id |-> id])

\* provideHover(model, position), up to its await: the user points at a
\* position of a model.  Without a client it returns null; getHover of a
\* client that is not connected is rejected, which the catch turns into
\* null; otherwise the hover request is sent.
ProvideHover(uri, position) ==
    /\ hover.phase = "none"
    /\ flow # "none"
    /\ ~models[uri].disposed
    /\ IF flow = "mounted" \/ NotConnected
       THEN /\ hover' = [phase |-> "done", uri |-> uri,
                         lineNumber |-> position.lineNumber,
                         column |-> position.column,
                         call |-> 0, shown |-> HoverNull]
            /\ UNCHANGED <<messageId, calls, pendingRequests, wire>>
       ELSE /\ ProviderRequest("textDocument/hover")
            /\ hover' = [phase |-> "requested", uri |-> uri,
                         lineNumber |-> position.lineNumber,
                         column |-> position.column,
                         call |-> Len(calls) + 1, shown |-> NoHover.shown]
    /\ lastEvent' = NoMessageEvent
    /\ UNCHANGED <<ws, socket, isInitialized, connectionStatus>>
    /\ UNCHANGED <<flow, diagnosticsHandler, models, openFiles, currentErrors,
                   markers, published, publishCount>>
    /\ UNCHANGED <<proxyVars, processVars>>

\* The 30-second timer of the hover request fires: getHover is rejected and
\* provideHover returns null.
HoverTimerFires ==
    /\ hover.phase = "requested"
    /\ calls[hover.call].timer = "armed"
    /\ LET c == [calls[hover.call] EXCEPT !.timer = "fired"]
       IN  IF c.id \in DOMAIN pendingRequests
           THEN /\ pendingRequests' = MapDelete(pendingRequests, c.id)
                /\ calls' = [calls EXCEPT ![hover.call] =
                        Settle(c, "rejected", TimeoutError(c.method, c.id))]
                /\ hover' = [hover EXCEPT !.phase = "done", !.shown = HoverNull]
           ELSE /\ calls' = [calls EXCEPT ![hover.call] = c]
                /\ UNCHANGED <<pendingRequests, hover>>
    /\ lastEvent' = NoMessageEvent
    /\ UNCHANGED <<ws, socket, messageId, isInitialized, wire, connectionStatus>>
    /\ UNCHANGED <<flow, diagnosticsHandler, models, openFiles, currentErrors,
                   markers, published, publishCount>>
    /\ UNCHANGED <<proxyVars, processVars>>

\* The semantic tokens provider is registered: initialize() returned
\* capabilities with a legend (lines 282-284).
TokensProviderRegistered ==
    /\ calls # <<>>
    /\ calls[1].state = "resolved"
    /\ HasLegend(calls[1].outcome.message)

\* provideDocumentSemanticTokens(model), up to its await, when the client is
\* connected (a rejected getSemanticTokens is caught and gives null).
ProvideDocumentSemanticTokens(uri) ==
    /\ TokensProviderRegistered
    /\ ~NotConnected
    /\ ~models[uri].disposed
    /\ \A i \in 1..Len(wire) : wire[i].method # "textDocument/semanticTokens/full"
    /\ ProviderRequest("textDocument/semanticTokens/full")
    /\ lastEvent' = NoMessageEvent
    /\ UNCHANGED <<ws, socket, isInitialized, connectionStatus>>
    /\ UNCHANGED editorVars
    /\ UNCHANGED <<proxyVars, processVars>>

\* How many edits the models have had.
EditCount == models[MainUri].versionId + models[LibraryUri].versionId - 2

\* The user changes the text of a model: Monaco increments its version id
\* and then calls the change listener, when connectToLSP has set one.
Edit(uri, text) ==
    /\ ~models[uri].disposed
    /\ EditCount < MaxEdits
    /\ text # models[uri].value
    /\ models' = [models EXCEPT ![uri].versionId = @ + 1, ![uri].value = text]
    /\ wire' = IF models[uri].listening
               THEN SendDocumentNotification(wire, "textDocument/didChange",
                        uri, models[uri].versionId + 1, text)
               ELSE wire
    /\ lastEvent' = NoMessageEvent
    /\ UNCHANGED <<ws, socket, messageId, pendingRequests, isInitialized,
                   calls, connectionStatus>>
    /\ UNCHANGED <<flow, diagnosticsHandler, openFiles, currentErrors,
                   markers, published, publishCount, hover>>
    /\ UNCHANGED <<proxyVars, processVars>>

\* closeFile(fileId): the model is disposed, the file leaves openFiles and
\* its errors leave currentErrors.
CloseFile(uri) ==
    /\ Cardinality(openFiles) > 1
    /\ uri \in openFiles
    /\ models' = [models EXCEPT ![uri].disposed = TRUE]
    /\ openFiles' = openFiles \ {uri}
    /\ currentErrors' = SelectSeq(currentErrors, LAMBDA error : error.uri # uri)
    /\ lastEvent' = NoMessageEvent
    /\ UNCHANGED <<flow, diagnosticsHandler, markers, published, publishCount,
                   hover>>
    /\ UNCHANGED clientVarsButEvent
    /\ UNCHANGED <<proxyVars, processVars>>

InitEditor == ProxyIdle /\ ProcessInit /\ ClientInit /\ EditorMounted

NextEditor ==
    \/ ConnectToLSP
    \/ EditorOnOpen
    \/ EditorOnClose
    \/ EditorOnError
    \/ \E m \in EditorInbound : EditorOnMessage(m)
    \/ EditorTimerFires
    \/ \E uri \in Uris : \E text \in Texts : Edit(uri, text)
    \/ \E uri \in Uris : CloseFile(uri)

SpecEditor == InitEditor /\ [][NextEditor]_vars

\* The editor with its providers: the user points at text, and Monaco asks
\* for semantic tokens.
NextHover ==
    \/ ConnectToLSP
    \/ EditorOnOpen
    \/ EditorOnClose
    \/ \E m \in EditorInbound : EditorOnMessage(m)
    \/ EditorTimerFires
    \/ \E uri \in Uris : \E position \in HoverPositions :
            ProvideHover(uri, position)
    \/ HoverTimerFires
    \/ \E uri \in Uris : ProvideDocumentSemanticTokens(uri)

SpecHover == InitEditor /\ [][NextHover]_vars

\* The part of currentErrors that belongs to a uri.
ErrorsOf(errors, uri) == SelectSeq(errors, LAMBDA error : error.uri = uri)

\* C12: a publish for a uri replaces that uri's part of the aggregate list
\* and leaves the part of every other uri as it was; and after any sequence
\* of publishes (no file having been closed) the part of each uri is what
\* its most recent publish carried, and nothing else.
C12_LastPublishWins ==
    /\ [](openFiles = Uris =>
            \A u \in Uris :
                ErrorsOf(currentErrors, u) = NewErrors(published[u], u))
    /\ [][\A u \in Uris : \A ds \in DiagnosticLists :
            EditorOnMessage(PublishDiagnostics(u, ds)) =>
                /\ ErrorsOf(currentErrors', u) = NewErrors(ds, u)
                /\ \A v \in Uris \ {u} :
                      ErrorsOf(currentErrors', v) = ErrorsOf(currentErrors, v)
         ]_vars

\* Three publishes came: the later publish of main.sysml replaced its
\* earlier, longer one, and the list still has the entry of library.sysml.
C12_Witness ==
    /\ publishCount = 3
    /\ openFiles = Uris
    /\ published[MainUri] = <<DiagnosticOne>>
    /\ published[LibraryUri] = <<DiagnosticOne>>
    /\ Len(currentErrors) = 2
    /\ currentErrors[1].uri = LibraryUri
    /\ currentErrors[2].uri = MainUri

C16_StatusStateMachine ==
    [][connectionStatus' # connectionStatus =>
          \/ /\ connectionStatus = "disconnected"
             /\ flow = "mounted"
             /\ connectionStatus' = "connecting"
          \/ /\ connectionStatus = "connecting"
             /\ connectionStatus' \in {"connected", "disconnected", "error"}
          \/ /\ connectionStatus = "connected"
             /\ connectionStatus' \in {"disconnected", "error"}]_vars

----------------------------------------------------------------------------
(* One connection of the proxy with its language server process.           *)

\* wss.on("connection") has run: spawn() returned a process that runs, or
\* one whose spawn failed and whose error event is due; or spawn() threw
\* and the catch closed the socket, with no handler registered.
InitProxy ==
    /\ messages = <<>>
    /\ units = <<>>
    /\ sessions = NoSessions
    /\ stream = <<>>
    /\ pos = 0
    /\ buffer = <<>>
    /\ forwarded = <<>>
    /\ dataEvents = 0
    /\ lsKilled = FALSE
    /\ sigterms = 0
    /\ received = <<>>
    /\ stdinWrites = <<>>
    /\ \/ ls \in {"running", "failing"} /\ wsReadyState = OPEN
                /\ closeCalls = <<>>
       \/ ls = "none" /\ wsReadyState = CLOSING /\ closeCalls = <<OPEN>>
    /\ ClientInit
    /\ EditorIdle

NextProxy ==
    \/ \E messageStr \in Bodies : WsMessage(messageStr)
    \/ LsExit
    \/ LsError
    \/ ProxyWsClosed

SpecProxy == InitProxy /\ [][NextProxy]_vars

\* A process that was sent SIGTERM ends.
LsTerminates == lsKilled /\ LsExit

SpecProxyFair == SpecProxy /\ WF_vars(LsTerminates)

\* C14: when the process has exited, or its spawn has failed, the client
\* channel is not left open; and the proxy calls ws.close() only on an open
\* channel, never on one that is closing or closed.
C14_ExitClosesChannel ==
    /\ ls \in {"exited", "failed", "none"} => wsReadyState # OPEN
    /\ \A i \in 1..Len(closeCalls) : closeCalls[i] = OPEN

\* The process exited while the channel was open with traffic on it: the
\* proxy closed the channel once, and the close has completed.
C14_Witness ==
    /\ ls = "exited"
    /\ ~lsKilled
    /\ closeCalls = <<OPEN>>
    /\ wsReadyState = CLOSED
    /\ received # <<>>

\* C15: when the client channel closes while the process runs, the close
\* handler sends it SIGTERM and writes nothing to its stdin; and once the
\* channel has closed, the process eventually does not run.
C15_CloseKillsProcess ==
    /\ [][(ProxyWsClosed /\ ls = "running") =>
            /\ sigterms' = sigterms + 1
            /\ lsKilled'
            /\ stdinWrites' = stdinWrites]_vars
    /\ (wsReadyState = CLOSED) ~> (ls # "running")

\* The channel closed while the process ran, after a message had been
\* written to it: one SIGTERM was sent and the process has ended.
C15_Witness ==
    /\ wsReadyState = CLOSED
    /\ closeCalls = <<>>
    /\ sigterms = 1
    /\ lsKilled
    /\ ls = "exited"
    /\ Len(stdinWrites) = 1

----------------------------------------------------------------------------
(* The decoder fed a stream that also has malformed output.                *)

\* A body that JSON.parse rejects, and a header block with no
\* Content-Length field.
BodyNotJson == <<"{", "k">>
HeadersNoLength == <<"X", ":", " ", "1">>

UnitSet ==
    {FrameUnit(BodyEmptyObject), FrameUnit(BodyAccented),
     FrameUnit(BodyNotJson), HeaderUnit(HeadersNoLength)}

\* The bytes of the units, in order.
RECURSIVE UnitBytes(_)
UnitBytes(us) ==
    IF us = <<>> THEN <<>>
    ELSE (IF Head(us).kind = "frame"
          THEN Encode(Head(us).text)
          ELSE Utf8Encode(Head(us).text \o HeaderTerminator))
            \o UnitBytes(Tail(us))

\* The bodies of the well-formed frames among the units whose body is JSON.
RECURSIVE ValidTexts(_)
ValidTexts(us) ==
    IF us = <<>> THEN <<>>
    ELSE (IF Head(us).kind = "frame" /\ JsonParses(Head(us).text)
          THEN <<Head(us).text>> ELSE <<>>)
            \o ValidTexts(Tail(us))

InitStream ==
    /\ units \in SeqsUpTo(UnitSet, MaxFrames)
    /\ sessions = NoSessions
    /\ messages = ValidTexts(units)
    /\ stream = UnitBytes(units)
    /\ pos = 0
    /\ buffer = <<>>
    /\ forwarded = <<>>
    /\ dataEvents = 0
    /\ wsReadyState = OPEN
    /\ ProcessInit
    /\ ClientInit
    /\ EditorIdle

SpecStream == InitStream /\ [][NextDecoder]_vars

\* The texts forwarded end with the given ones.
EndsWith(texts) ==
    /\ Len(texts) <= Len(forwarded)
    /\ SubSeq(forwarded, Len(forwarded) - Len(texts) + 1, Len(forwarded)) = texts

\* The units after the i-th.
UnitsAfter(i) == SubSeq(units, i + 1, Len(units))

\* Nothing of the session was closed or killed by the proxy.
SessionUp == closeCalls = <<>> /\ sigterms = 0 /\ ls = "running"

\* C17: when the stream has a header block with no Content-Length field and
\* has been delivered whole, nothing of the session was torn down, the
\* decoder is past that block, and the well-formed frames written after it
\* have all been forwarded, in order.
C17_MissingLengthSkipped ==
    Delivered =>
        \A i \in 1..Len(units) :
            units[i].kind = "header" =>
                /\ SessionUp
                /\ EndsWith(ValidTexts(UnitsAfter(i)))
                /\ IndexOf(buffer, HeadersNoLength \o HeaderTerminator) = -1

\* C18: when the stream has a frame whose body is not JSON and has been
\* delivered whole, nothing was forwarded for that frame, nothing of the
\* session was torn down, and the well-formed frames written after it have
\* all been forwarded, in order.
C18_InvalidJsonDropped ==
    Delivered =>
        \A i \in 1..Len(units) :
            (units[i].kind = "frame" /\ ~JsonParses(units[i].text)) =>
                /\ SessionUp
                /\ EndsWith(ValidTexts(UnitsAfter(i)))
                /\ \A k \in 1..Len(forwarded) : forwarded[k] # units[i].text

----------------------------------------------------------------------------
(* The decode loop runs until the buffer holds no complete frame.          *)

\* The string starts with a header block that declares a length and is
\* followed by at least that many bytes of body.
HoldsCompleteFrame(buf) ==
    LET headerEnd == IndexOf(buf, HeaderTerminator)
        declared == ContentLengthMatch(Substring(buf, 0, headerEnd))
    IN  /\ headerEnd # -1
        /\ declared # <<>>
        /\ ByteLength(SubstringFrom(buf, headerEnd + 4)) >= ParseInt(declared)

\* C19: whenever the stdout data handler has returned, the buffer holds no
\* complete frame; and once a stream of whole valid frames has been delivered,
\* however it was cut into data events, the buffer is empty and one text per
\* frame has been forwarded.
C19_LoopDrainsBuffer ==
    /\ ~HoldsCompleteFrame(buffer)
    /\ Delivered => (buffer = <<>> /\ Len(forwarded) = Len(messages))

----------------------------------------------------------------------------
(* What the proxy writes to the server's stdin.                            *)

\* The bytes on the pipe: the writes, one after the other.
RECURSIVE PipeBytes(_)
PipeBytes(writes) ==
    IF writes = <<>> THEN <<>> ELSE Head(writes) \o PipeBytes(Tail(writes))

\* C20: the writes to the server's stdin are one per message received from
\* the browser, the i-th write is the frame of the i-th message, and so the
\* bytes on the pipe are the frames of the messages in the order received,
\* none twice and none mixed with another.
C20_StdinWritesInOrder ==
    /\ Len(stdinWrites) = Len(received)
    /\ \A i \in 1..Len(received) : stdinWrites[i] = Encode(received[i])
    /\ PipeBytes(stdinWrites) = Frames(received)

\* Three messages were received and written, not all the same.
C20_Witness ==
    /\ Len(received) = MaxClientMessages
    /\ Len(stdinWrites) = MaxClientMessages
    /\ received[1] # received[2]
    /\ received[2] = received[3]

----------------------------------------------------------------------------
(* The order of the handshake.                                             *)

DocumentMethods == {"textDocument/didOpen", "textDocument/didChange"}

\* C21: when `initialized` is on the wire, the initialize request was sent
\* before it and has been resolved with a result that the server sent for
\* it (it was not rejected and did not time out); and every did-open and
\* did-change on the wire has `initialized` before it.
C21_HandshakeOrder ==
    /\ \A i \in 1..Len(wire) :
          wire[i].method = "initialized" =>
              /\ \E j \in 1..(i - 1) : wire[j].method = "initialize"
              /\ \E k \in 1..Len(calls) :
                    /\ calls[k].method = "initialize"
                    /\ calls[k].state = "resolved"
                    /\ calls[k].outcome.kind = "result"
                    /\ calls[k].outcome.message \in Results
    /\ \A j \in 1..Len(wire) :
          wire[j].method \in DocumentMethods =>
              \E i \in 1..(j - 1) : wire[i].method = "initialized"

----------------------------------------------------------------------------
(* Several connections to the proxy at once.  Everything a connection has  *)
(* is a local of its wss.on("connection") callback.                        *)

SessionIds == {1, 2}

\* Messages a browser sends on one connection, and bytes a data event of a
\* process's stdout brings when it does not bring all that is left.
MaxSessionMessages == 1
SessionChunk == 10

\* What the browser of a connection sends and what its process writes.
ClientText(i) == IF i = 1 THEN BodyEmptyObject ELSE BodyAccented
ServerText(i) == IF i = 1 THEN BodyEmptyObject ELSE BodyTenBytes
SessionStream(i) == Frames(<<ServerText(i)>>)

\* No connection event yet.
Absent ==
    [present |-> FALSE, wsReadyState |-> "none", ls |-> "none",
     lsKilled |-> FALSE, sigterms |-> 0, received |-> <<>>,
     stdinWrites |-> <<>>, closeCalls |-> <<>>, pos |-> 0, buffer |-> <<>>,
     forwarded |-> <<>>]

\* The locals of the callback after spawn() and `let buffer = ""`.
Connected ==
    [Absent EXCEPT !.present = TRUE, !.wsReadyState = OPEN, !.ls = "running"]

\* One buffer for all connections, as a variable of the module would be.
SharedBuffer(i) == 1

\* `let buffer` is declared in the callback: each connection has its own.
BufferOf(i) == i

\* wss.on("connection"): a browser connects and its process is spawned.
Connection(i) ==
    /\ ~sessions[i].present
    /\ sessions' = [sessions EXCEPT ![i] = Connected]
    /\ UNCHANGED <<messages, units, stream, pos, buffer, forwarded,
                   dataEvents, wsReadyState>>
    /\ UNCHANGED <<processVars, clientVars, editorVars>>

\* ws.on("message") of connection i.
SessionWsMessage(i) ==
    LET session == sessions[i]
    IN  /\ session.present
        /\ session.wsReadyState \in {OPEN, CLOSING}
        /\ Len(session.received) < MaxSessionMessages
        /\ sessions' = [sessions EXCEPT
                ![i].received = Append(@, ClientText(i)),
                ![i].stdinWrites = StdinWrite(@, Encode(ClientText(i)))]
        /\ UNCHANGED <<messages, units, stream, pos, buffer, forwarded,
                       dataEvents, wsReadyState>>
        /\ UNCHANGED <<processVars, clientVars, editorVars>>

\* What ls.stdout.on("data") of connection i leaves in the buffer and has
\* sent when the next n bytes of process i arrive.
SessionDecoded(i, n, buf) ==
    LET session == sessions[i]
        data == SubSeq(SessionStream(i), session.pos + 1, session.pos + n)
    IN  DecodeLoop(buf \o BufferToString(data), session.forwarded,
                   session.wsReadyState)

\* ls.stdout.on("data") of connection i.
SessionStdoutData(i, n) ==
    LET session == sessions[i]
        r == SessionDecoded(i, n, sessions[BufferOf(i)].buffer)
    IN  /\ session.present
        /\ n >= 1
        /\ session.pos + n <= Len(SessionStream(i))
        /\ sessions' = [sessions EXCEPT
                ![i].pos = @ + n,
                ![i].forwarded = r.sent,
                ![BufferOf(i)].buffer = r.buffer]
        /\ UNCHANGED <<messages, units, stream, pos, buffer, forwarded,
                       dataEvents, wsReadyState>>
        /\ UNCHANGED <<processVars, clientVars, editorVars>>

\* ls.on("exit") of connection i.
SessionLsExit(i) ==
    LET session == sessions[i]
    IN  /\ session.ls = "running"
        /\ sessions' = [sessions EXCEPT
                ![i].ls = "exited",
                ![i].wsReadyState =
                    IF ShouldClose(session.wsReadyState) THEN CLOSING ELSE @,
                ![i].closeCalls =
                    IF ShouldClose(session.wsReadyState)
                    THEN Append(@, session.wsReadyState) ELSE @]
        /\ UNCHANGED <<messages, units, stream, pos, buffer, forwarded,
                       dataEvents, wsReadyState>>
        /\ UNCHANGED <<processVars, clientVars, editorVars>>

\* ws.on("close") of connection i.
SessionWsClosed(i) ==
    LET session == sessions[i]
        kills == ShouldKill(session.lsKilled) /\ session.ls = "running"
    IN  /\ session.present
        /\ session.wsReadyState \in {OPEN, CLOSING}
        /\ sessions' = [sessions EXCEPT
                ![i].wsReadyState = CLOSED,
                ![i].lsKilled = IF kills THEN TRUE ELSE @,
                ![i].sigterms = IF kills THEN @ + 1 ELSE @]
        /\ UNCHANGED <<messages, units, stream, pos, buffer, forwarded,
                       dataEvents, wsReadyState>>
        /\ UNCHANGED <<processVars, clientVars, editorVars>>

\* How many bytes a data event of process i may bring: a chunk, or all
\* that is left.
SessionChunks(i) ==
    {SessionChunk, Len(SessionStream(i)) - sessions[i].pos}

\* An event of connection i.
SessionStep(i) ==
    \/ Connection(i)
    \/ SessionWsMessage(i)
    \/ \E n \in SessionChunks(i) : SessionStdoutData(i, n)
    \/ SessionLsExit(i)
    \/ SessionWsClosed(i)

InitSessions ==
    /\ sessions = [i \in SessionIds |-> Absent]
    /\ messages = <<>>
    /\ units = <<>>
    /\ stream = <<>>
    /\ pos = 0
    /\ buffer = <<>>
    /\ forwarded = <<>>
    /\ dataEvents = 0
    /\ wsReadyState = OPEN
    /\ ProcessInit
    /\ ClientInit
    /\ EditorIdle

NextSessions == \E i \in SessionIds : SessionStep(i)

SpecSessions == InitSessions /\ [][NextSessions]_vars

\* C22: with two connections, whatever the order of their events: what is
\* written to process i is the frames of the messages of browser i and of
\* no other; a data event of process i is decoded with the buffer of
\* connection i and with nothing of another; and no event of connection i,
\* the close of its socket and the exit of its process included, changes
\* anything of another connection: no socket closed, no process signalled,
\* no buffer, no write.
C22_SessionsIsolated ==
    /\ [](\A i \in SessionIds :
            /\ sessions[i].received \in SeqsUpTo({ClientText(i)}, MaxSessionMessages)
            /\ sessions[i].stdinWrites =
                    [k \in 1..Len(sessions[i].received) |->
                        Encode(sessions[i].received[k])])
    /\ [][\A i \in SessionIds :
            /\ SessionStep(i) =>
                    \A j \in SessionIds \ {i} : sessions'[j] = sessions[j]
            /\ \A n \in SessionChunks(i) :
                    SessionStdoutData(i, n) =>
                        LET r == SessionDecoded(i, n, sessions[i].buffer)
                        IN  /\ sessions'[i].buffer = r.buffer
                            /\ sessions'[i].forwarded = r.sent]_vars

\* Both connections are up, process 1 has written half a frame and process
\* 2 a whole one, browser 1's socket has closed and process 1 has ended,
\* while connection 2 is open with its process running.
C22_Witness ==
    /\ sessions[1].wsReadyState = CLOSED
    /\ sessions[1].ls = "exited"
    /\ sessions[1].sigterms = 1
    /\ sessions[1].buffer # <<>>
    /\ sessions[2].wsReadyState = OPEN
    /\ sessions[2].ls = "running"
    /\ sessions[2].forwarded = <<ServerText(2)>>
    /\ sessions[2].stdinWrites = <<Encode(ClientText(2))>>

----------------------------------------------------------------------------
(* The hover provider.                                                     *)

\* The position is in the text from the marker's start to its end, which
\* may be on a later line.
InTextRange(m, position) ==
    /\ \/ position.lineNumber > m.startLineNumber
       \/ /\ position.lineNumber = m.startLineNumber
          /\ position.column >= m.startColumn
    /\ \/ position.lineNumber < m.endLineNumber
       \/ /\ position.lineNumber = m.endLineNumber
          /\ position.column <= m.endColumn

\* The step in which getHover resolves with a result that has no contents
\* and provideHover returns.
HoverFallsBack ==
    /\ hover.phase = "requested"
    /\ hover'.phase = "done"
    /\ calls'[hover.call].state = "resolved"
    /\ ~HasContents(calls'[hover.call].outcome.message)

\* C23: when the hover request returns no content, provideHover returns a
\* diagnostic exactly when some marker of the model has a text range that
\* contains the position, and the one it returns is such a marker.
C23_FallbackFindsContaining ==
    [][HoverFallsBack =>
        LET ms == markers[hover.uri]
            containing == {i \in 1..Len(ms) : InTextRange(ms[i], hover)}
        IN  /\ hover'.shown.kind = "marker" <=> containing # {}
            /\ hover'.shown.kind = "marker" =>
                    \E i \in containing :
                        /\ hover'.shown.message = ms[i].message
                        /\ hover'.shown.range =
                                <<ms[i].startLineNumber, ms[i].startColumn,
                                  ms[i].endLineNumber, ms[i].endColumn>>]_vars

----------------------------------------------------------------------------
(* Requests of a client that is not connected.                             *)

\* C24: a sendRequest made while there is no socket, or while the socket is
\* not open, is rejected at once with "WebSocket not connected": its reject
\* is called in the call itself, it takes no id, the pending map gets no
\* entry, no timer is started and nothing is put on the wire.
C24_NotConnectedRejects ==
    [][(Len(calls') = Len(calls) + 1 /\ (ws = "null" \/ socket # OPEN)) =>
            LET c == calls'[Len(calls')]
            IN  /\ c.state = "rejected"
                /\ c.outcome = NotConnectedError
                /\ c.invoked = 1
                /\ c.timer = "none"
                /\ c.id = 0
                /\ UNCHANGED <<messageId, pendingRequests, wire>>]_vars

\* A request was made on a socket that had closed, after an earlier one
\* was sent: it was rejected, and the earlier one is all there is on the
\* wire.
C24_Witness ==
    /\ ws # "null"
    /\ socket = CLOSED
    /\ Len(calls) = 2
    /\ calls[1].id = 1
    /\ calls[2].outcome = NotConnectedError
    /\ calls[2].state = "rejected"
    /\ messageId = 1
    /\ Len(wire) = 1

----------------------------------------------------------------------------
(* Messages of the server that carry a method.                             *)

\* C25: a pending request is settled by an inbound message only when the
\* message is a Response (it has an id and no method); a request or a
\* notification of the server settles none, whatever its id.
C25_OnlyResponsesSettle ==
    [][\A k \in 1..Len(calls) :
            (/\ calls[k].state = "pending"
             /\ calls'[k].state # "pending"
             /\ lastEvent'.branch = "settled") => lastEvent'.response]_vars

----------------------------------------------------------------------------
(* initialize() called again while it awaits.                              *)

\* How often a method is on the wire.
TimesSent(method) == Cardinality({i \in 1..Len(wire) : wire[i].method = method})

\* C26: whatever the order of initialize() calls, also of calls made while
\* an earlier one awaits its result, the wire of the one session a client
\* has carries at most one initialize request and at most one `initialized`
\* notification.
C26_OneInitializePerSession ==
    /\ TimesSent("initialize") <= 1
    /\ TimesSent("initialized") <= 1

----------------------------------------------------------------------------
(* Requests of the providers and the handshake.                            *)

ProviderMethods == {"textDocument/hover", "textDocument/semanticTokens/full"}

\* C27: every hover and every semantic tokens request on the wire has the
\* `initialized` notification before it, which is sent when the result of
\* initialize has come.
C27_NoRequestBeforeHandshake ==
    \A i \in 1..Len(wire) :
        wire[i].method \in ProviderMethods =>
            \E j \in 1..(i - 1) : wire[j].method = "initialized"

----------------------------------------------------------------------------
(* The problems list and the open files.                                   *)

\* C28: every entry of the aggregate problems list belongs to a file that
\* is open: closeFile takes the entries of the file it closes out of the
\* list, and no later publication brings an entry of that file back.
C28_ErrorsOfOpenFilesOnly ==
    \A i \in 1..Len(currentErrors) : currentErrors[i].uri \in openFiles

----------------------------------------------------------------------------
(* The process after its exit.                                             *)

\* C29: once the process has exited, nothing more is written to its stdin
\* and no SIGTERM is sent to it.
C29_NothingAfterExit ==
    [][ls = "exited" =>
            /\ stdinWrites' = stdinWrites
            /\ sigterms' = sigterms]_vars

----------------------------------------------------------------------------
(* The decode loop, iteration by iteration.                                *)

\* The header block is left in the buffer.
KeepHeaders(buf, headerEnd) == buf

\* buffer = buffer.substring(headerEnd + 4) of the branch for a header
\* block without Content-Length.
DiscardHeaders(buf, headerEnd) == SubstringFrom(buf, headerEnd + 4)

\* One pass through the body of `while (true)`: the buffer and the texts
\* sent after it, and whether it left the loop (break) or goes round again.
LoopIteration(buf, sent, readyState) ==
    LET headerEnd == IndexOf(buf, HeaderTerminator)
        headers == Substring(buf, 0, headerEnd)
        contentLengthMatch == ContentLengthMatch(headers)
        contentLength == ParseInt(contentLengthMatch)
        messageStart == headerEnd + 4
        messageEnd == messageStart + contentLength
        messageContent == Substring(buf, messageStart, messageEnd)
    IN  IF headerEnd = -1
        THEN [buffer |-> buf, sent |-> sent, left |-> TRUE]
        ELSE IF contentLengthMatch = <<>>
        THEN [buffer |-> DiscardHeaders(buf, headerEnd), sent |-> sent,
              left |-> FALSE]
        ELSE IF Len(buf) < messageEnd
        THEN [buffer |-> buf, sent |-> sent, left |-> TRUE]
        ELSE [buffer |-> SubstringFrom(buf, messageEnd),
              sent |-> IF JsonParses(messageContent) /\ readyState = OPEN
                       THEN Append(sent, messageContent) ELSE sent,
              left |-> FALSE]

\* Every iteration of the loop on this buffer leaves the loop or makes the
\* buffer shorter.
RECURSIVE IterationsShorten(_)
IterationsShorten(buf) ==
    LET it == LoopIteration(buf, <<>>, OPEN)
    IN  \/ it.left
        \/ /\ Len(it.buffer) < Len(buf)
           /\ IterationsShorten(it.buffer)

\* The iterations one after the other, until the loop is left.
RECURSIVE LoopRun(_, _, _)
LoopRun(buf, sent, readyState) ==
    LET it == LoopIteration(buf, sent, readyState)
    IN  IF it.left THEN [buffer |-> it.buffer, sent |-> it.sent]
        ELSE LoopRun(it.buffer, it.sent, readyState)

\* A frame with no body, which declares a Content-Length of 0.
BodyNothing == <<>>

LoopUnitSet ==
    {FrameUnit(BodyEmptyObject), FrameUnit(BodyNothing),
     HeaderUnit(HeadersNoLength)}

InitLoop ==
    /\ units \in SeqsUpTo(LoopUnitSet, MaxFrames)
    /\ sessions = NoSessions
    /\ messages = ValidTexts(units)
    /\ stream = UnitBytes(units)
    /\ pos = 0
    /\ buffer = <<>>
    /\ forwarded = <<>>
    /\ dataEvents = 0
    /\ wsReadyState = OPEN
    /\ ProcessInit
    /\ ClientInit
    /\ EditorIdle

SpecLoop == InitLoop /\ [][NextDecoder]_vars

\* The buffer the loop starts on when the next n bytes of the stream come.
BufferWith(n) == buffer \o BufferToString(SubSeq(stream, pos + 1, pos + n))

\* C30: whatever the buffer holds and whatever comes next, the loop of the
\* data handler ends: each of its iterations leaves the loop or makes the
\* buffer strictly shorter, also for a frame that declares a length of 0
\* and for a header block without Content-Length; and what the handler
\* does is what these iterations do one after the other.
C30_LoopTerminates ==
    \A n \in 1..(Len(stream) - pos) :
        LET buf == BufferWith(n)
        IN  /\ IterationsShorten(buf)
            /\ LoopRun(buf, forwarded, wsReadyState) =
                    DecodeLoop(buf, forwarded, wsReadyState)

\* One data event brought a header block without Content-Length and then a
\* frame of length 0, and the loop went through both.
C30_Witness ==
    /\ units = <<HeaderUnit(HeadersNoLength), FrameUnit(BodyNothing)>>
    /\ dataEvents = 1
    /\ pos = Len(stream)
    /\ buffer = <<>>
    /\ forwarded = <<>>

====
